---- MODULE Spec2Model ----
(***************************************************************************)
(* A model of tidal_async/api.py: the identity cache in front of           *)
(* TidalObject.from_id / from_url, the paginated traversal of              *)
(* Album.tracks / Playlist.tracks, and the quality check of                *)
(* Track.get_file_url.                                                     *)
(***************************************************************************)
EXTENDS Integers, Sequences, FiniteSets, Bags, TLC

VARIABLES
    cache,     \* lru_cache of from_id: sequence of [key, aw], least recently used first
    aws,       \* the awaitables the cacheable decorator returned, by index
    objs,      \* the entities constructed so far (the heap), by index
    tasks,     \* the callers of from_id / from_url
    fetches,   \* bag of the GETs issued to the session
    sesscfg,   \* the session's preferred_audio_quality and required_audio_quality
    fu,        \* the Track and the call of its get_file_url in progress
    coll,      \* the Album or Playlist that is traversed, and its server
    gens,      \* the traversals tracks() has started on it
    frames,    \* the local variables offset and total_items of the traversals
    ent        \* an entity, and the call of one of its methods in progress

vars == <<cache, aws, objs, tasks, fetches, sesscfg, fu, coll, gens, frames, ent>>

\* The state of the identity cache, and the state of get_file_url.
idVars == <<cache, aws, objs, tasks>>
urlVars == <<sesscfg, fu>>
pagVars == <<coll, gens, frames>>
entVars == <<ent>>

----------------------------------------------------------------------------
(* Bounds of the model                                                     *)

NumTasks == 2

Tasks == 1..NumTasks

\* The identifier concurrent callers ask for (SpecLru ranges over many).
Ids == {1}
Sessions == {"s1"}

----------------------------------------------------------------------------
(* Classes                                                                 *)

\* The concrete kinds of api.py.
ConcreteKinds == {"Track", "Album", "Playlist"}

\* "NoRoute" stands for a concrete subclass that declares no urlname.
Classes == ConcreteKinds \cup {"TidalObject", "NoRoute"}

\* hasattr(cls, "urlname")
HasUrlname(cls) == cls \in ConcreteKinds

urlname(cls) ==
    CASE cls = "Track" -> "track"
      [] cls = "Playlist" -> "playlist"
      [] cls = "Album" -> "album"

\* The default of the id_field_name parameter of the from_id a class exposes.
IdFieldDefault(cls) == IF cls = "Playlist" THEN "uuid" ELSE "id"

\* lru_cache's default maxsize (the decorator is applied without arguments).
LruMaxsize == 128


----------------------------------------------------------------------------
(* Helpers of tidal_async.utils and of the session, known by their use     *)

\* snake_to_camel: the wire key of a logical field name.
snake_to_camel(name) ==
    CASE name = "audio_quality" -> "audioQuality"
      [] name = "total_number_of_items" -> "totalNumberOfItems"
      [] name = "volume_number" -> "volumeNumber"
      [] name = "track_number" -> "trackNumber"
      [] OTHER -> name

\* A URL of the catalog: the route name and the identifier it embeds.
Urls == [route : {"track", "album", "playlist", "artist"}, id : Ids]

\* The URLs a caller passes to cls.from_url: those of the class's own route,
\* and one of a route that is not the class's.
UrlsFor(cls) ==
    IF cls \in {"Track", "Album", "Playlist"}
    THEN {u \in Urls : u.route = urlname(cls) \/ (u.route = "artist" /\ u.id = 1)}
    ELSE {u \in Urls : u.route = "track" /\ u.id = 1}

\* id_from_url(url, urlname): the embedded identifier, or a failure when the
\* URL is not one of that route.
id_from_url(url, name) ==
    IF url.route = name THEN [ok |-> TRUE, id |-> url.id]
                        ELSE [ok |-> FALSE, id |-> 0]

\* The body the server returns for GET /v1/<kind>s/<id>.
ServerBody(cls, id) ==
    (IdFieldDefault(cls) :> id) @@ ("title" :> id)

----------------------------------------------------------------------------
(* TidalObject                                                             *)

\* TidalObject.__init__
TidalObject(cls, sess, dict_, id_field_name) ==
    [cls |-> cls, sess |-> sess, dict |-> dict_, id_field_name |-> id_field_name]

\* TidalObject.__getitem__
getitem(o, item) == o.dict[snake_to_camel(item)]

\* TidalObject.__contains__
contains(o, item) == snake_to_camel(item) \in DOMAIN o.dict

\* TidalObject.get_id
get_id(o) == getitem(o, o.id_field_name)

\* The GET that reload_info of Track, Playlist and Album sends.
ReloadRequest(o) ==
    [ep |-> "reload", cls |-> o.cls, sess |-> o.sess, id |-> get_id(o)]

----------------------------------------------------------------------------
(* The identity cache: classmethod(lru_cache(cacheable(from_id)))          *)

\* IsAbstract without the guard: from_id runs its body on the base type too.
IsAbstractNever(cls) == FALSE

\* if cls is TidalObject: the guard of from_id and of from_url.
IsAbstract(cls) == cls = "TidalObject"

\* from_id_args of a cache that does not tell the sessions apart.
from_id_args_one_session(cls, sess, id) ==
    IF cls = "Playlist" THEN <<cls, "s1", id, IdFieldDefault(cls)>>
                        ELSE <<cls, "s1", id>>

\* The positional arguments that reach the lru_cache wrapper: Playlist.from_id
\* passes its id_field_name on, the other classes are called with (sess, id).
from_id_args(cls, sess, id) ==
    IF cls = "Playlist" THEN <<cls, sess, id, IdFieldDefault(cls)>>
                        ELSE <<cls, sess, id>>

\* from_url_args calling the base from_id with its default id_field_name.
from_url_args_base(cls, sess, id) == <<cls, sess, id>>

\* from_url resolves through cls.from_id(sess, id): the class's own from_id.
from_url_args(cls, sess, id) == from_id_args(cls, sess, id)

\* The id_field_name parameter of from_id for these arguments.
id_field_name_of(key) == IF Len(key) = 4 THEN key[4] ELSE "id"

LruFind(c, key) ==
    IF \E i \in 1..Len(c) : c[i].key = key
    THEN CHOOSE i \in 1..Len(c) : c[i].key = key
    ELSE 0

\* The sequence c without its i-th element.
Remove(c, i) == [j \in 1..(Len(c) - 1) |-> IF j < i THEN c[j] ELSE c[j + 1]]

\* lru_cache on a hit: the entry becomes the most recently used one.
LruHit(c, i) == Append(Remove(c, i), c[i])

\* LruMiss of a cache that keeps a single entry.
LruMissOne(c, entry) == <<entry>>

\* lru_cache on a miss: the least recently used entry is dropped when the
\* cache is full, and the new one is appended.
LruMiss(c, entry) ==
    Append(IF Len(c) >= LruMaxsize THEN Tail(c) ELSE c, entry)

\* cacheable: the call returns a fresh awaitable around the coroutine, whose
\* body has not started.
cacheable(key) == [key |-> key, st |-> "new", obj |-> 0, err |-> ""]

\* lru_cache that never finds an entry: from_id without memoization.
lru_cache_off(c, a, key) ==
    [cache |-> Append(c, [key |-> key, aw |-> Len(a) + 1]),
     aws |-> Append(a, [key |-> key, st |-> "new", obj |-> 0, err |-> ""]),
     aw |-> Len(a) + 1]

\* One call of the decorated from_id: the cache, the awaitables and the
\* awaitable handed to the caller.
lru_cache(c, a, key) ==
    LET i == LruFind(c, key) IN
    IF i > 0
    THEN [cache |-> LruHit(c, i), aws |-> a, aw |-> c[i].aw]
    ELSE [cache |-> LruMiss(c, [key |-> key, aw |-> Len(a) + 1]),
          aws |-> Append(a, cacheable(key)),
          aw |-> Len(a) + 1]


----------------------------------------------------------------------------
(* Callers of from_id and from_url                                         *)

\* A caller: where it stands (pc), the call it made, the awaitable it holds,
\* the state of that awaitable when its await began (joined), and its outcome.
IdleTask ==
    [pc |-> "idle", op |-> "", cls |-> "", sess |-> "", id |-> 0, route |-> "",
     aw |-> 0, joined |-> "", res |-> 0, err |-> ""]

\* No call of from_id or from_url was made yet.
InitId ==
    /\ cache = <<>>
    /\ aws = <<>>
    /\ objs = <<>>
    /\ tasks = [t \in Tasks |-> IdleTask]

\* The body of from_id, which the first await of awaitable a runs up to the
\* GET of reload_info.
from_id(t, a1, a) ==
    LET key == a1[a].key IN
    IF IsAbstract(key[1])
    THEN \* if cls is TidalObject: raise NotImplementedError
         /\ aws' = [a1 EXCEPT ![a].st = "failed", ![a].err = "NotImplementedError"]
         /\ tasks' = [tasks EXCEPT ![t].pc = "raised", ![t].aw = a,
                                   ![t].joined = "new",
                                   ![t].err = "NotImplementedError"]
         /\ UNCHANGED <<objs, fetches>>
    ELSE \* obj = cls(sess, {id_field_name: id_}, id_field_name)
         \* await obj.reload_info()
         LET f == id_field_name_of(key)
             o == TidalObject(key[1], key[2], (f :> key[3]), f)
         IN
         /\ objs' = Append(objs, o)
         /\ fetches' = fetches (+) SetToBag({ReloadRequest(o)})
         /\ aws' = [a1 EXCEPT ![a].st = "running", ![a].obj = Len(objs) + 1]
         /\ tasks' = [tasks EXCEPT ![t].pc = "waiting", ![t].aw = a,
                                   ![t].joined = "new"]

\* tidal_async.utils, which holds cacheable, is not among the sources.  What
\* api.py needs of the decorator, an awaitable that can be awaited more than
\* once and hands every awaiter the object from_id returned, is met in two
\* ways, which part where the coroutine does not return:
\*   "future": the awaitable keeps the outcome of the one operation, object or
\*       failure, and hands it to every awaiter; an awaiter that is cancelled
\*       leaves the operation alone;
\*   "lock": the awaiters take turns to await the coroutine itself and only a
\*       returned object is kept; the failure or the cancellation of the
\*       awaiter that drives the coroutine ends the coroutine, and every other
\*       awaiter then awaits a coroutine that has ended, which raises
\*       RuntimeError (cannot reuse already awaited coroutine).
\* The first is what the specification describes.
Decorators == {"future", "lock"}

\* What an awaiter other than the one driving the coroutine gets of a
\* resolution that ended with err.
ErrorSeen(k, err) == IF k = "future" THEN err ELSE "RuntimeError"

\* cacheable: awaiting an awaitable whose coroutine another await has started.
\* The caller waits for the one outstanding operation, or takes what it left.
AwaitStarted(k, t, a1, a) ==
    LET w == a1[a] IN
    /\ aws' = a1
    /\ UNCHANGED <<objs, fetches>>
    /\ CASE w.st = "running" ->
              tasks' = [tasks EXCEPT ![t].pc = "waiting", ![t].aw = a,
                                     ![t].joined = "running"]
         [] w.st = "done" ->
              tasks' = [tasks EXCEPT ![t].pc = "got", ![t].aw = a,
                                     ![t].joined = "done", ![t].res = w.obj]
         [] w.st = "failed" ->
              tasks' = [tasks EXCEPT ![t].pc = "raised", ![t].aw = a,
                                     ![t].joined = "failed",
                                     ![t].err = ErrorSeen(k, w.err)]

\* Awaiting awaitable a, given the cache c1 and the awaitables a1 the call
\* left: the first await runs the body of from_id, a later one joins it.
AwaitFromId(k, t, c1, a1, a) ==
    /\ cache' = c1
    /\ IF a1[a].st = "new" THEN from_id(t, a1, a) ELSE AwaitStarted(k, t, a1, a)

\* cls.from_id(sess, id_) is called.  For Playlist the call only creates the
\* coroutine of Playlist.from_id; for the other classes it is the lru_cache
\* wrapper itself that runs, and hands out the awaitable.
CallFromId(t, cls, sess, id) ==
    /\ tasks[t].pc = "idle"
    /\ IF cls = "Playlist"
       THEN /\ tasks' = [tasks EXCEPT ![t] = [IdleTask EXCEPT !.pc = "called",
                             !.op = "from_id", !.cls = cls, !.sess = sess, !.id = id]]
            /\ UNCHANGED <<cache, aws>>
       ELSE LET r == lru_cache(cache, aws, from_id_args(cls, sess, id)) IN
            /\ cache' = r.cache
            /\ aws' = r.aws
            /\ tasks' = [tasks EXCEPT ![t] = [IdleTask EXCEPT !.pc = "called",
                             !.op = "from_id", !.cls = cls, !.sess = sess, !.id = id,
                             !.aw = r.aw]]
    /\ UNCHANGED <<objs, fetches>>

\* cls.from_url(sess, url) is called: the coroutine is created.
CallFromUrl(t, cls, sess, url) ==
    /\ tasks[t].pc = "idle"
    /\ tasks' = [tasks EXCEPT ![t] = [IdleTask EXCEPT !.pc = "called",
                     !.op = "from_url", !.cls = cls, !.sess = sess, !.id = url.id,
                     !.route = url.route]]
    /\ UNCHANGED <<cache, aws, objs, fetches>>

\* The caller awaits what the call returned, under decorator d.
AwaitAs(d, t) ==
    LET k == tasks[t] IN
    /\ k.pc = "called"
    /\ CASE k.op = "from_url" /\ IsAbstract(k.cls) ->
              /\ tasks' = [tasks EXCEPT ![t].pc = "raised",
                                        ![t].err = "NotImplementedError"]
              /\ UNCHANGED <<cache, aws, objs, fetches>>
         [] k.op = "from_url" /\ ~IsAbstract(k.cls) /\ ~HasUrlname(k.cls) ->
              /\ tasks' = [tasks EXCEPT ![t].pc = "raised",
                                        ![t].err = "NotImplementedError"]
              /\ UNCHANGED <<cache, aws, objs, fetches>>
         [] k.op = "from_url" /\ ~IsAbstract(k.cls) /\ HasUrlname(k.cls) ->
              LET x == id_from_url([route |-> k.route, id |-> k.id], urlname(k.cls)) IN
              IF x.ok
              THEN LET r == lru_cache(cache, aws, from_url_args(k.cls, k.sess, x.id)) IN
                   AwaitFromId(d, t, r.cache, r.aws, r.aw)
              ELSE /\ tasks' = [tasks EXCEPT ![t].pc = "raised", ![t].err = "UrlMismatch"]
                   /\ UNCHANGED <<cache, aws, objs, fetches>>
         [] k.op = "from_id" /\ k.aw = 0 ->
              \* Playlist.from_id: await super().from_id(sess, id_, id_field_name)
              LET r == lru_cache(cache, aws, from_id_args(k.cls, k.sess, k.id)) IN
              AwaitFromId(d, t, r.cache, r.aws, r.aw)
         [] k.op = "from_id" /\ k.aw # 0 ->
              AwaitFromId(d, t, cache, aws, k.aw)

\* The caller awaits what the call returned.
Await(t) == \E d \in Decorators : AwaitAs(d, t)

\* The callers waiting for awaitable a are resumed with the outcome of the
\* coroutine: the object, or its failure err.  The failure leaves the
\* coroutine into the caller whose await drives it (it ran the body of
\* from_id); the other waiters get what the decorator makes of it.
Resumed(k, a, ok, obj, err) ==
    [t \in Tasks |->
        IF tasks[t].pc = "waiting" /\ tasks[t].aw = a
        THEN IF ok THEN [tasks[t] EXCEPT !.pc = "got", !.res = obj]
                   ELSE [tasks[t] EXCEPT !.pc = "raised",
                             !.err = IF tasks[t].joined = "new"
                                     THEN err ELSE ErrorSeen(k, err)]
        ELSE tasks[t]]

\* The session answers the GET of reload_info: self.dict = await resp.json(),
\* from_id returns obj, and the callers awaiting it are resumed with obj.
FetchOk(a) ==
    /\ a \in 1..Len(aws)
    /\ aws[a].st = "running"
    /\ objs' = [objs EXCEPT ![aws[a].obj].dict =
                   ServerBody(objs[aws[a].obj].cls, get_id(objs[aws[a].obj]))]
    /\ aws' = [aws EXCEPT ![a].st = "done"]
    /\ tasks' = Resumed("future", a, TRUE, aws[a].obj, "")
    /\ UNCHANGED <<cache, fetches>>

\* FetchFail of a from_id that swallows the failure and returns the entity as
\* it constructed it.
FetchFailSwallow(a) ==
    /\ a \in 1..Len(aws)
    /\ aws[a].st = "running"
    /\ aws' = [aws EXCEPT ![a].st = "done"]
    /\ tasks' = Resumed("future", a, TRUE, aws[a].obj, "")
    /\ UNCHANGED <<cache, objs, fetches>>

\* The session fails the GET of reload_info: nothing in from_id catches the
\* failure, which leaves the coroutine and reaches the callers awaiting it.
FetchFailAs(k, a) ==
    /\ a \in 1..Len(aws)
    /\ aws[a].st = "running"
    /\ aws' = [aws EXCEPT ![a].st = "failed", ![a].err = "FetchFailure"]
    /\ tasks' = Resumed(k, a, FALSE, 0, "FetchFailure")
    /\ UNCHANGED <<cache, objs, fetches>>

FetchFail(a) == \E k \in Decorators : FetchFailAs(k, a)

\* Cancel that reaches into the shared operation: the GET is abandoned and
\* every caller awaiting it is cancelled with it.
CancelShared(k, t) ==
    /\ tasks[t].pc = "waiting"
    /\ aws' = [aws EXCEPT ![tasks[t].aw].st = "failed",
                          ![tasks[t].aw].err = "CancelledError"]
    /\ tasks' = [u \in Tasks |->
                    IF u = t
                    THEN [tasks[u] EXCEPT !.pc = "cancelled", !.err = "CancelledError"]
                    ELSE IF tasks[u].pc = "waiting" /\ tasks[u].aw = tasks[t].aw
                         THEN [tasks[u] EXCEPT !.pc = "raised", !.err = "CancelledError"]
                         ELSE tasks[u]]
    /\ UNCHANGED <<cache, objs, fetches>>

\* A waiting caller is cancelled: its wait is abandoned.  Under "future", and
\* for a caller that does not drive the coroutine, the operation it shares
\* with the other waiters is left alone.  Under "lock" the cancellation of
\* the caller that drives the coroutine ends the coroutine: the GET is
\* abandoned, and the other waiters fail on the ended coroutine.
CancelAs(k, t) ==
    /\ tasks[t].pc = "waiting"
    /\ IF k = "lock" /\ tasks[t].joined = "new"
       THEN /\ aws' = [aws EXCEPT ![tasks[t].aw].st = "failed",
                                  ![tasks[t].aw].err = "CancelledError"]
            /\ tasks' = [u \in Tasks |->
                  IF u = t
                  THEN [tasks[u] EXCEPT !.pc = "cancelled", !.err = "CancelledError"]
                  ELSE IF tasks[u].pc = "waiting" /\ tasks[u].aw = tasks[t].aw
                       THEN [tasks[u] EXCEPT !.pc = "raised", !.err = "RuntimeError"]
                       ELSE tasks[u]]
       ELSE /\ tasks' = [tasks EXCEPT ![t].pc = "cancelled", ![t].err = "CancelledError"]
            /\ UNCHANGED aws
    /\ UNCHANGED <<cache, objs, fetches>>

Cancel(t) == \E k \in Decorators : CancelAs(k, t)

\* The caller's await is over; the task is free to make another call.
Return(t) ==
    /\ tasks[t].pc \in {"got", "raised", "cancelled"}
    /\ tasks' = [tasks EXCEPT ![t] = IdleTask]
    /\ UNCHANGED <<cache, aws, objs, fetches>>

----------------------------------------------------------------------------
(* reload_info, the accessors and Track.get_metadata                       *)

\* The calls of reload_info and get_metadata made on the entity.
MaxEntCalls == 2

\* A mapping without keys.
EmptyDict == [k \in {} |-> ""]

\* bool(v) of a JSON null ("None") or string: null and "" are false.
Truthy(v) == v # "None" /\ v # ""

\* The mapping d with an optional field: left out, null, or a string.
WithOptional(d, key, v) == IF v = "absent" THEN d ELSE (key :> v) @@ d

\* The identifier of the entity of each kind.
EntId(cls) == IF cls = "Album" THEN 7 ELSE 1

\* The album sub-document embedded in a track: a part of the album's fields.
AlbumDoc == ("id" :> EntId("Album")) @@ ("title" :> "A") @@ ("cover" :> "c0-ff")

\* The bodies the server returns for GET /v1/tracks/<id>.
TrackBody(copyright, isrc) ==
    WithOptional(WithOptional(
        ("id" :> EntId("Track")) @@ ("title" :> "T")
          @@ ("artist" :> [name |-> "Ar"]) @@ ("artists" :> <<[name |-> "Ar"]>>)
          @@ ("album" :> AlbumDoc)
          @@ ("volumeNumber" :> 1) @@ ("trackNumber" :> 2),
        "copyright", copyright), "isrc", isrc)

\* The bodies the server returns for GET /v1/albums/<id>.
AlbumBody(copyright, upc) ==
    WithOptional(WithOptional(
        AlbumDoc @@ ("artist" :> [name |-> "AlAr"]) @@ ("year" :> 2020)
          @@ ("numberOfVolumes" :> 1) @@ ("numberOfTracks" :> 3),
        "copyright", copyright), "upc", upc)

\* The bodies the server returns for GET /v1/playlists/<uuid>.
PlaylistBody(description) ==
    WithOptional(("uuid" :> EntId("Playlist")) @@ ("title" :> "P")
                   @@ ("image" :> "i0-ff"),
                 "description", description)

Bodies(cls) ==
    CASE cls = "Track" ->
             {TrackBody(c, i) : c \in {"absent", "None", "", "cT"},
                                i \in {"absent", "None", "", "I"}}
      [] cls = "Album" ->
             {AlbumBody(c, u) : c \in {"absent", "None", "", "cA"},
                                u \in {"absent", "None", "", "U"}}
      [] cls = "Playlist" ->
             {PlaylistBody(d) : d \in {"absent", "D"}}

\* The entity as from_id constructs it, before its first reload.
Stub(cls) ==
    TidalObject(cls, "s1", (IdFieldDefault(cls) :> EntId(cls)), IdFieldDefault(cls))

\* The entities the methods are called on: not yet loaded, or loaded.
Entities ==
    UNION {{Stub(cls)} \cup
           {TidalObject(cls, "s1", b, IdFieldDefault(cls)) : b \in Bodies(cls)} :
               cls \in ConcreteKinds}

\* No entity.
NoObj == TidalObject("", "", EmptyDict, "")

\* Cover.__init__
Cover(sess, id_) == [sess |-> sess, id |-> id_]

\* Track.album: a new Album around the embedded sub-document.
AlbumOf(o) == TidalObject("Album", o.sess, getitem(o, "album"), "id")

\* str(v)
str(v) == ToString(v)

\* parse_title: the display title of an entity and its artists.
parse_title(o, artists) == <<"parse_title", getitem(o, "title"), artists>>

\* CopyrightTag that reads the track alone.
CopyrightTagNoFallback(track, album) ==
    IF contains(track, "copyright") /\ Truthy(getitem(track, "copyright"))
    THEN ("copyright" :> getitem(track, "copyright"))
    ELSE EmptyDict

\* The copyright tag: the track's own, or else the album's.
CopyrightTag(track, album) ==
    IF contains(track, "copyright") /\ Truthy(getitem(track, "copyright"))
    THEN ("copyright" :> getitem(track, "copyright"))
    ELSE IF contains(album, "copyright") /\ Truthy(getitem(album, "copyright"))
         THEN ("copyright" :> getitem(album, "copyright"))
         ELSE EmptyDict

\* An identifier tag, read from the entity that carries the field.
IdentifierTag(o, field) ==
    IF contains(o, field) /\ Truthy(getitem(o, field))
    THEN (field :> getitem(o, field))
    ELSE EmptyDict

\* The tags get_metadata returns for the track and its reloaded album.
Tags(track, album) ==
    IdentifierTag(album, "upc") @@ IdentifierTag(track, "isrc")
      @@ CopyrightTag(track, album)
      @@ ("artist" :> getitem(track, "artist").name)
      @@ ("title" :> parse_title(track, getitem(track, "artists")))
      @@ ("albumartist" :> getitem(album, "artist").name)
      @@ ("album" :> parse_title(album, <<>>))
      @@ ("date" :> str(getitem(album, "year")))
      @@ ("discnumber" :> str(getitem(track, "volumeNumber")))
      @@ ("disctotal" :> str(getitem(album, "numberOfVolumes")))
      @@ ("tracknumber" :> str(getitem(track, "trackNumber")))
      @@ ("tracktotal" :> str(getitem(album, "numberOfTracks")))

\* The entity with no call in progress, after so many reload_info and
\* get_metadata calls.
EntIdle(o, calls, metas) ==
    [pc |-> "idle", op |-> "", obj |-> o, album |-> NoObj,
     before |-> EmptyDict, body |-> EmptyDict, tags |-> EmptyDict,
     res |-> <<>>, err |-> "", calls |-> calls, metas |-> metas]

\* The entity outside its specifications.
InitEntDefault == ent = EntIdle(Stub("Track"), 0, 0)

\* reload_info up to its GET.
ReloadCall ==
    /\ ent.pc = "idle"
    /\ ent.calls + ent.metas < MaxEntCalls
    /\ ent' = [ent EXCEPT !.pc = "reload_await", !.op = "reload_info",
                          !.before = ent.obj.dict, !.calls = @ + 1]
    /\ fetches' = fetches (+) SetToBag({ReloadRequest(ent.obj)})

\* ReloadOk that merges the body into the mapping it finds.
ReloadOkMerge(body) ==
    /\ ent.pc = "reload_await"
    /\ ent' = [ent EXCEPT !.pc = "returned", !.body = body,
                          !.obj.dict = body @@ ent.obj.dict]
    /\ UNCHANGED fetches

\* self.dict = await resp.json(): the GET succeeded and its body decoded.
ReloadOk(body) ==
    /\ ent.pc = "reload_await"
    /\ ent' = [ent EXCEPT !.pc = "returned", !.body = body, !.obj.dict = body]
    /\ UNCHANGED fetches

\* ReloadFail of a reload_info that empties the mapping before it fetches.
ReloadFailCleared(kind) ==
    /\ ent.pc = "reload_await"
    /\ ent' = [ent EXCEPT !.pc = "raised", !.err = kind,
                          !.obj.dict = Stub(ent.obj.cls).dict]
    /\ UNCHANGED fetches

\* sess.get or resp.json() raises: the assignment to self.dict is not reached.
ReloadFail(kind) ==
    /\ ent.pc = "reload_await"
    /\ ent' = [ent EXCEPT !.pc = "raised", !.err = kind]
    /\ UNCHANGED fetches

\* get_metadata up to the GET of album.reload_info(); a track without the
\* album field fails on self["album"].
GetMetadataCall ==
    /\ ent.pc = "idle"
    /\ ent.obj.cls = "Track"
    /\ ent.calls + ent.metas < MaxEntCalls
    /\ IF contains(ent.obj, "album")
       THEN /\ ent' = [ent EXCEPT !.pc = "meta_await", !.op = "get_metadata",
                                  !.before = ent.obj.dict, !.metas = @ + 1,
                                  !.album = AlbumOf(ent.obj)]
            /\ fetches' = fetches (+) SetToBag({ReloadRequest(AlbumOf(ent.obj))})
       ELSE /\ ent' = [ent EXCEPT !.pc = "raised", !.op = "get_metadata",
                                  !.before = ent.obj.dict, !.err = "KeyError"]
            /\ UNCHANGED fetches

\* MetadataResponse that stores the reloaded album in the track's mapping.
MetadataResponseWriteThrough(body) ==
    /\ ent.pc = "meta_await"
    /\ ent' = [ent EXCEPT !.pc = "returned", !.body = body, !.album.dict = body,
                  !.obj.dict = ("album" :> body) @@ ent.obj.dict,
                  !.tags = Tags(ent.obj, [ent.album EXCEPT !.dict = body])]
    /\ UNCHANGED fetches

\* The album's reload succeeds; get_metadata builds the tags and returns.
MetadataResponse(body) ==
    /\ ent.pc = "meta_await"
    /\ ent' = [ent EXCEPT !.pc = "returned", !.body = body, !.album.dict = body,
                  !.tags = Tags(ent.obj, [ent.album EXCEPT !.dict = body])]
    /\ UNCHANGED fetches

\* The album's reload fails; the failure leaves get_metadata.
MetadataFail(kind) ==
    /\ ent.pc = "meta_await"
    /\ ent' = [ent EXCEPT !.pc = "raised", !.err = kind]
    /\ UNCHANGED fetches

\* The accessors: get_id, a field read, Track.album, and cover.
Accessors == {"get_id", "title", "album", "cover"}

\* The fields the accessor reads are there.
AccessDefined(o, op) ==
    CASE op = "get_id" -> contains(o, o.id_field_name)
      [] op = "title" -> contains(o, "title")
      [] op = "album" -> contains(o, "album")
      [] op = "cover" ->
             CASE o.cls = "Track" ->
                      contains(o, "album") /\ contains(AlbumOf(o), "cover")
               [] o.cls = "Album" -> contains(o, "cover")
               [] o.cls = "Playlist" -> contains(o, "image")

AccessValue(o, op) ==
    CASE op = "get_id" -> get_id(o)
      [] op = "title" -> getitem(o, "title")
      [] op = "album" -> AlbumOf(o)
      [] op = "cover" ->
             CASE o.cls = "Track" -> Cover(o.sess, getitem(AlbumOf(o), "cover"))
               [] o.cls = "Album" -> Cover(o.sess, getitem(o, "cover"))
               [] o.cls = "Playlist" -> Cover(o.sess, getitem(o, "image"))

\* An accessor is called: it returns its value, or fails on a missing field.
Access(op) ==
    /\ ent.pc = "idle"
    /\ op = "album" => ent.obj.cls = "Track"
    /\ IF AccessDefined(ent.obj, op)
       THEN ent' = [ent EXCEPT !.pc = "returned", !.op = op,
                               !.before = ent.obj.dict,
                               !.res = <<op, AccessValue(ent.obj, op)>>]
       ELSE ent' = [ent EXCEPT !.pc = "raised", !.op = op,
                               !.before = ent.obj.dict, !.err = "KeyError"]
    /\ UNCHANGED fetches

\* The call is over; the entity is free for another call.
EntReturn ==
    /\ ent.pc \in {"returned", "raised"}
    /\ ent' = EntIdle(ent.obj, ent.calls, ent.metas)
    /\ UNCHANGED fetches

\* The failures of a GET: the request fails, or its body does not decode.
FailureKinds == {"FetchFailure", "JSONDecodeError"}

----------------------------------------------------------------------------
(* Album.tracks and Playlist.tracks                                        *)

MaxItems == 3
MaxPage == 2

\* The traversals of the one collection instance.
Gens == {1, 2}

\* No traversal issues more listing GETs than this: the log of a traversal
\* is cut off here.
ReqCap == MaxItems + 3

\* The item fragments of a collection of n tracks, in the server's order.
ItemsOf(n) == [i \in 1..n |-> ("id" :> i)]

\* s[from + 1 .. to], within the sequence.
Slice(s, from, to) ==
    LET lo == IF from < 0 THEN 0 ELSE from
        hi == IF to > Len(s) THEN Len(s) ELSE to
    IN IF hi <= lo THEN <<>> ELSE [i \in 1..(hi - lo) |-> s[lo + i]]

\* The answers of the server to a listing GET.  A server that echoes the
\* request ("honest") returns the items at [offset, offset + limit), the
\* offset and limit of the request, and the number of items.  A server that
\* only moves its window forward ("increasing") reports any bounded total and
\* echoes any window that ends after the one before.  A server of its own
\* mind ("any") echoes the offset of the request or 0, the limit of the
\* request or 1, reports the number of items or 1, and returns the items of
\* the window it echoes.
ListingResponses(c, first, offset, limit) ==
    CASE c.mode = "honest" ->
             {[items |-> Slice(ItemsOf(c.n), offset, offset + limit),
               offset |-> offset, limit |-> limit, totalNumberOfItems |-> c.n]}
      [] c.mode = "increasing" ->
             {[items |-> Slice(ItemsOf(c.n), offset, offset + limit),
               offset |-> offset, limit |-> e - offset, totalNumberOfItems |-> t] :
                 e \in (IF first THEN 0 ELSE offset + 1)..(MaxItems + 1),
                 t \in 0..MaxItems}
      [] c.mode = "any" ->
             {[items |-> Slice(ItemsOf(c.n), o, o + l),
               offset |-> o, limit |-> l, totalNumberOfItems |-> t] :
                 o \in {0, offset}, l \in {1, limit}, t \in {1, c.n}}

\* The offset of the listing GET a traversal sent last.
LastReq(g) ==
    IF gens[g].reqs = <<>> THEN 0 ELSE gens[g].reqs[Len(gens[g].reqs)]

\* The listing GET of tracks().
ListingRequest(o, offset, limit) ==
    [ep |-> "tracks", cls |-> o.cls, sess |-> o.sess, id |-> get_id(o),
     offset |-> offset, limit |-> limit]

\* FrameOf with the two variables kept on the collection instance.
FrameOfInstance(g) == 1

\* offset and total_items are local variables of the generator: every call of
\* tracks() has its own.
FrameOf(g) == g

\* The loop condition with <= in the place of <.
ContinueLoopLe(offset, total_items) == offset <= total_items

\* while offset < total_items
ContinueLoop(offset, total_items) == offset < total_items

\* The next offset taken from the echoed offset alone.
NextOffsetNoLimit(data) == data.offset

\* offset = data["offset"] + data["limit"]
NextOffset(data) == data.offset + data.limit

\* A traversal that tracks() has not been called for.
NoGen ==
    [pc |-> "none", limit |-> 0, page |-> <<>>, reqs |-> <<>>, resps |-> <<>>,
     pages |-> 0, items |-> 0, out |-> <<>>]

\* What is kept on record of a decoded listing response.
LogOf(data) ==
    [offset |-> data.offset, limit |-> data.limit,
     total |-> data.totalNumberOfItems, n |-> Len(data.items)]

\* The traversal gs with the response on record: the last two responses, the
\* number of responses and the number of items received.
Logged(gs, data) ==
    [gs EXCEPT !.resps = IF @ = <<>> THEN <<LogOf(data)>>
                                     ELSE <<@[Len(@)], LogOf(data)>>,
               !.pages = @ + 1,
               !.items = @ + Len(data.items)]

InitPagDefault ==
    /\ coll = [obj |-> TidalObject("Album", "s1", ServerBody("Album", 1), "id"),
               n |-> 0, mode |-> "honest"]
    /\ gens = [g \in Gens |-> NoGen]
    /\ frames = [g \in Gens |-> [offset |-> 0, total_items |-> 0]]

\* StartTracks of a function that runs up to its first GET when it is called.
StartTracksEager(g, per_request_limit) ==
    /\ gens[g].pc = "none"
    /\ gens' = [gens EXCEPT ![g].pc = "fetching", ![g].limit = per_request_limit,
                             ![g].reqs = <<0>>]
    /\ frames' = [frames EXCEPT ![g] = [offset |-> 0, total_items |-> 1]]
    /\ fetches' = fetches (+) SetToBag({ListingRequest(coll.obj, 0, per_request_limit)})
    /\ UNCHANGED coll

\* tracks(per_request_limit) is called: the generator is created, and none of
\* its body has run.
StartTracks(g, per_request_limit) ==
    /\ gens[g].pc = "none"
    /\ gens' = [gens EXCEPT ![g].pc = "created", ![g].limit = per_request_limit]
    /\ UNCHANGED <<coll, frames, fetches>>

\* The head of the while loop, with the local variables fr: the generator
\* either sends the next listing GET or ends.
LoopHead(g, gs, fr) ==
    IF ContinueLoop(fr[FrameOf(g)].offset, fr[FrameOf(g)].total_items)
    THEN /\ gens' = [gens EXCEPT ![g] = [gs EXCEPT !.pc = "fetching", !.page = <<>>,
                         !.reqs = Append(@, fr[FrameOf(g)].offset)]]
         /\ fetches' = fetches (+) SetToBag({ListingRequest(coll.obj,
                                       fr[FrameOf(g)].offset, gs.limit)})
    ELSE /\ gens' = [gens EXCEPT ![g] = [gs EXCEPT !.pc = "done", !.page = <<>>]]
         /\ UNCHANGED fetches

\* ForItems that resolves every item through a reload of its own.
ForItemsReload(g, gs, fr, items) ==
    IF items # <<>>
    THEN /\ gens' = [gens EXCEPT ![g] = [gs EXCEPT !.pc = "yielded",
                         !.page = Tail(items),
                         !.out = Append(@, get_id(TidalObject("Track", coll.obj.sess,
                                                             Head(items), "id")))]]
         /\ fetches' = fetches (+) SetToBag({ReloadRequest(
                            TidalObject("Track", coll.obj.sess, Head(items), "id"))})
    ELSE LoopHead(g, gs, fr)

\* The for loop over the items that are left of the page: the generator
\* yields Track(self.sess, track) for the next one, or is back at the head of
\* the while loop.
ForItems(g, gs, fr, items) ==
    IF items # <<>>
    THEN /\ gens' = [gens EXCEPT ![g] = [gs EXCEPT !.pc = "yielded",
                         !.page = Tail(items),
                         !.out = Append(@, get_id(TidalObject("Track", coll.obj.sess,
                                                             Head(items), "id")))]]
         /\ UNCHANGED fetches
    ELSE LoopHead(g, gs, fr)

\* The consumer asks the generator for its next item.
Advance(g) ==
    /\ gens[g].pc \in {"created", "yielded"}
    /\ Len(gens[g].reqs) < ReqCap
    /\ IF gens[g].pc = "created"
       THEN \* offset = 0; total_items = 1
            LET fr == [frames EXCEPT ![FrameOf(g)] = [offset |-> 0, total_items |-> 1]] IN
            /\ frames' = fr
            /\ LoopHead(g, gens[g], fr)
       ELSE /\ UNCHANGED frames
            /\ ForItems(g, gens[g], frames, gens[g].page)
    /\ UNCHANGED coll

\* ListingResponse that advances by what was asked for: the offset of the
\* request plus per_request_limit.
ListingResponseLocal(g, data) ==
    /\ gens[g].pc = "fetching"
    /\ Len(gens[g].reqs) < ReqCap
    /\ LET fr == [frames EXCEPT ![FrameOf(g)] =
                     [offset |-> frames[FrameOf(g)].offset + gens[g].limit,
                      total_items |-> data.totalNumberOfItems]]
       IN /\ frames' = fr
          /\ ForItems(g, Logged(gens[g], data),
                      fr, data.items)
    /\ UNCHANGED coll

\* ListingResponse with a guard: a window that does not end after the one
\* before ends the traversal once its items are yielded.
ListingResponseGuarded(g, data) ==
    /\ gens[g].pc = "fetching"
    /\ Len(gens[g].reqs) < ReqCap
    /\ LET stuck == gens[g].resps # <<>> /\ NextOffset(data) <= frames[FrameOf(g)].offset
           fr == [frames EXCEPT ![FrameOf(g)] =
                     [offset |-> NextOffset(data),
                      total_items |-> IF stuck THEN 0 ELSE data.totalNumberOfItems]]
       IN /\ frames' = fr
          /\ ForItems(g, Logged(gens[g], data),
                      fr, data.items)
    /\ UNCHANGED coll

\* The session answers the listing GET of a traversal.
ListingResponse(g, data) ==
    /\ gens[g].pc = "fetching"
    /\ Len(gens[g].reqs) < ReqCap
    /\ LET fr == [frames EXCEPT ![FrameOf(g)] =
                     [offset |-> NextOffset(data),
                      total_items |-> data.totalNumberOfItems]]
       IN /\ frames' = fr
          /\ ForItems(g, Logged(gens[g], data),
                      fr, data.items)
    /\ UNCHANGED coll

----------------------------------------------------------------------------
(* AudioQuality and Track.get_file_url                                     *)

\* The members of AudioQuality, in the order of their definition.
AudioQuality == <<"Normal", "High", "HiFi", "Master">>

AudioQualities == {AudioQuality[i] : i \in 1..Len(AudioQuality)}

\* member.value: the wire string of a tier.
value(q) ==
    CASE q = "Normal" -> "LOW"
      [] q = "High" -> "HIGH"
      [] q = "HiFi" -> "LOSSLESS"
      [] q = "Master" -> "HI_RES"

\* The strings the server reports as audioQuality: the four tiers, and one
\* that names no member.
WireQualities == {value(q) : q \in AudioQualities} \cup {"DOLBY"}

\* AudioQuality(wire): the member with that value; none raises ValueError.
AudioQualityOf(wire) ==
    IF \E q \in AudioQualities : value(q) = wire
    THEN CHOOSE q \in AudioQualities : value(q) = wire
    ELSE "ValueError"

\* The place of a member in the definition order.
OrderOf(q) == CHOOSE i \in 1..Len(AudioQuality) : AudioQuality[i] = q

\* quality < required_quality with <= in the place of <.
InsufficientOrEqual(quality, required) == OrderOf(quality) <= OrderOf(required)

\* quality < required_quality: the base class generic.AudioQuality orders the
\* members, Normal < High < HiFi < Master, which is the order of their
\* definition.
Insufficient(quality, required) == OrderOf(quality) < OrderOf(required)

\* The manifest field of a playback-info response: base64 of a JSON document
\* with the list of urls.
ManifestOf(urls) == <<"base64", <<"json", [urls |-> urls]>>>>

\* json.loads(base64.b64decode(data["manifest"]))
DecodeManifest(m) == m[2][2]

\* The GET of _playbackinfopostpaywall.
PlaybackRequest(track, preferred_audio_quality) ==
    [ep |-> "playbackinfopostpaywall", cls |-> "Track", sess |-> track.sess,
     id |-> get_id(track), audioquality |-> value(preferred_audio_quality)]

\* The number of playback-info GETs issued so far.
PlaybackRequests ==
    BagCardinality([r \in {x \in BagToSet(fetches) : x.ep = "playbackinfopostpaywall"}
                      |-> fetches[r]])

MaxCalls == 2
MaxUrls == 2

\* The url lists a manifest may carry.
UrlLists == UNION {[1..n -> {"u1", "u2"}] : n \in 0..MaxUrls}

\* The Tracks get_file_url is called on: one as the constructor takes it
\* with the id alone, and one with the mapping of a reload.
FuTracks ==
    {Stub("Track"),
     TidalObject("Track", "s1", TrackBody("absent", "absent"), "id")}

\* Track.__repr__: the text names get_id(), artist_name (artist["name"]) and
\* title; a mapping without one of them raises KeyError.
repr(o) ==
    IF /\ contains(o, o.id_field_name)
       /\ contains(o, "artist")
       /\ "name" \in DOMAIN getitem(o, "artist")
       /\ contains(o, "title")
    THEN [ok |-> TRUE,
          text |-> <<get_id(o), getitem(o, "artist").name, getitem(o, "title")>>]
    ELSE [ok |-> FALSE, text |-> <<>>]

\* The Track get_file_url is called on, with no call in progress.
FuIdle(track, calls) ==
    [pc |-> "idle", calls |-> calls, track |-> track,
     required |-> "", preferred |-> "", delivered |-> "", urls |-> <<>>,
     res |-> "", err |-> ""]

\* The state of get_file_url outside its specification.
InitUrlDefault ==
    /\ sesscfg = [preferred_audio_quality |-> "Normal", required_audio_quality |-> "Normal"]
    /\ fu = FuIdle(TidalObject("Track", "s1", TrackBody("absent", "absent"), "id"), 0)

\* get_file_url(required_quality, preferred_quality) up to the GET: "None"
\* stands for an argument left out, which takes the session's setting.
CallGetFileUrl(required_quality, preferred_quality) ==
    LET preferred == IF preferred_quality = "None"
                     THEN sesscfg.preferred_audio_quality ELSE preferred_quality
        required == IF required_quality = "None"
                    THEN sesscfg.required_audio_quality ELSE required_quality
    IN
    /\ fu.pc = "idle"
    /\ fu.calls < MaxCalls
    /\ fu' = [fu EXCEPT !.pc = "await_playback", !.calls = @ + 1,
                        !.required = required, !.preferred = preferred]
    /\ fetches' = fetches (+) SetToBag({PlaybackRequest(fu.track, preferred)})
    /\ UNCHANGED sesscfg

\* What get_file_url does with the decoded response: the outcome of the call.
\* The message of InsufficientAudioQuality formats the track, that is, calls
\* Track.__repr__: where that raises KeyError, KeyError is what leaves the
\* call.
AfterPlaybackInfo(c, data) ==
    LET manifest == DecodeManifest(data.manifest)
        quality == AudioQualityOf(data.audioQuality)
        seen == [c EXCEPT !.delivered = data.audioQuality, !.urls = manifest.urls]
    IN
    CASE quality = "ValueError" ->
             [seen EXCEPT !.pc = "raised", !.err = "ValueError"]
      [] quality # "ValueError" /\ Insufficient(quality, c.required) ->
             [seen EXCEPT !.pc = "raised",
                          !.err = IF repr(c.track).ok
                                  THEN "InsufficientAudioQuality" ELSE "KeyError"]
      [] quality # "ValueError" /\ ~Insufficient(quality, c.required)
           /\ manifest.urls = <<>> ->
             [seen EXCEPT !.pc = "raised", !.err = "IndexError"]
      [] OTHER ->
             [seen EXCEPT !.pc = "returned", !.res = manifest.urls[1]]

\* PlaybackResponse that asks again, for the delivered tier, on a shortfall.
PlaybackResponseRetry(wire, urls) ==
    LET after == AfterPlaybackInfo(fu, [audioQuality |-> wire,
                                        manifest |-> ManifestOf(urls)])
    IN
    /\ fu.pc = "await_playback"
    /\ IF after.err \in {"InsufficientAudioQuality", "KeyError"}
       THEN /\ fu' = [fu EXCEPT !.preferred = AudioQualityOf(wire)]
            /\ fetches' = fetches (+)
                   SetToBag({PlaybackRequest(fu.track, AudioQualityOf(wire))})
       ELSE /\ fu' = after
            /\ UNCHANGED fetches
    /\ UNCHANGED sesscfg

\* The session answers the playback-info GET; get_file_url runs to its end.
PlaybackResponse(wire, urls) ==
    /\ fu.pc = "await_playback"
    /\ fu' = AfterPlaybackInfo(fu, [audioQuality |-> wire, manifest |-> ManifestOf(urls)])
    /\ UNCHANGED <<fetches, sesscfg>>

\* The session fails the playback-info GET.
PlaybackFail ==
    /\ fu.pc = "await_playback"
    /\ fu' = [fu EXCEPT !.pc = "raised", !.err = "FetchFailure"]
    /\ UNCHANGED <<fetches, sesscfg>>

\* The call is over; the Track is free for another call.
FuReturn ==
    /\ fu.pc \in {"returned", "raised"}
    /\ fu' = FuIdle(fu.track, fu.calls)
    /\ UNCHANGED <<fetches, sesscfg>>

InitUrl ==
    /\ InitId
    /\ InitPagDefault
    /\ InitEntDefault
    /\ fetches = EmptyBag
    /\ sesscfg \in [preferred_audio_quality : AudioQualities,
                    required_audio_quality : AudioQualities]
    /\ fu \in {FuIdle(track, 0) : track \in FuTracks}

NextUrl ==
    \/ \E r, p \in AudioQualities \cup {"None"} :
           CallGetFileUrl(r, p) /\ UNCHANGED <<idVars, pagVars, entVars>>
    \/ \E w \in WireQualities, urls \in UrlLists :
           PlaybackResponse(w, urls) /\ UNCHANGED <<idVars, pagVars, entVars>>
    \/ PlaybackFail /\ UNCHANGED <<idVars, pagVars, entVars>>
    \/ FuReturn /\ UNCHANGED <<idVars, pagVars, entVars>>

SpecUrl == InitUrl /\ [][NextUrl]_vars

----------------------------------------------------------------------------
(* Specifications of the traversals                                        *)

\* The collections, the page sizes and the servers of the specifications.
Colls(modes) ==
    [obj : {TidalObject(k, "s1", ServerBody(k, 1), IdFieldDefault(k)) :
                k \in {"Album", "Playlist"}},
     n : 0..MaxItems, mode : modes]

InitPag ==
    /\ InitId
    /\ InitUrlDefault
    /\ InitEntDefault
    /\ fetches = EmptyBag
    /\ coll \in Colls({"honest"})
    /\ gens = [g \in Gens |-> NoGen]
    /\ frames = [g \in Gens |-> [offset |-> 0, total_items |-> 0]]

NextPag ==
    \/ \E g \in Gens, l \in 1..MaxPage :
           StartTracks(g, l) /\ UNCHANGED <<idVars, urlVars, entVars>>
    \/ \E g \in Gens : Advance(g) /\ UNCHANGED <<idVars, urlVars, entVars>>
    \/ \E g \in Gens :
           \E data \in ListingResponses(coll, Len(gens[g].reqs) = 1,
                                        LastReq(g), gens[g].limit) :
               ListingResponse(g, data) /\ UNCHANGED <<idVars, urlVars, entVars>>

SpecPag == InitPag /\ [][NextPag]_vars

\* One traversal, consumed to its end, against either server.
InitPagSolo ==
    /\ InitId
    /\ InitUrlDefault
    /\ InitEntDefault
    /\ fetches = EmptyBag
    /\ coll \in Colls({"honest", "increasing"})
    /\ gens = [g \in Gens |-> NoGen]
    /\ frames = [g \in Gens |-> [offset |-> 0, total_items |-> 0]]

StartSolo == \E l \in 1..MaxPage : StartTracks(1, l) /\ UNCHANGED <<idVars, urlVars, entVars>>

AdvanceSolo == Advance(1) /\ UNCHANGED <<idVars, urlVars, entVars>>

RespondSolo ==
    \E data \in ListingResponses(coll, Len(gens[1].reqs) = 1,
                                 LastReq(1), gens[1].limit) :
        ListingResponse(1, data) /\ UNCHANGED <<idVars, urlVars, entVars>>

NextPagSolo == StartSolo \/ AdvanceSolo \/ RespondSolo

\* The consumer keeps asking for items, and the session answers every GET.
SpecPagFair ==
    /\ InitPagSolo
    /\ [][NextPagSolo]_vars
    /\ WF_vars(AdvanceSolo)
    /\ WF_vars(RespondSolo)

\* One traversal against a server that echoes what it likes, followed for
\* MaxAnyPages listing GETs.
MaxAnyPages == 4

InitPagAny ==
    /\ InitId
    /\ InitUrlDefault
    /\ InitEntDefault
    /\ fetches = EmptyBag
    /\ coll \in Colls({"any"})
    /\ gens = [g \in Gens |-> NoGen]
    /\ frames = [g \in Gens |-> [offset |-> 0, total_items |-> 0]]

NextPagAny ==
    \/ StartSolo
    \/ Len(gens[1].reqs) < MaxAnyPages /\ AdvanceSolo
    \/ Len(gens[1].reqs) < MaxAnyPages /\ RespondSolo

SpecPagAny == InitPagAny /\ [][NextPagAny]_vars

----------------------------------------------------------------------------
(* Specification of the methods of one entity                              *)

InitEnt ==
    /\ InitId
    /\ InitUrlDefault
    /\ InitPagDefault
    /\ fetches = EmptyBag
    /\ ent \in {EntIdle(o, 0, 0) : o \in Entities}

NextEnt ==
    \/ ReloadCall /\ UNCHANGED <<idVars, urlVars, pagVars>>
    \/ \E body \in Bodies(ent.obj.cls) :
           ReloadOk(body) /\ UNCHANGED <<idVars, urlVars, pagVars>>
    \/ \E kind \in FailureKinds :
           ReloadFail(kind) /\ UNCHANGED <<idVars, urlVars, pagVars>>
    \/ GetMetadataCall /\ UNCHANGED <<idVars, urlVars, pagVars>>
    \/ \E body \in Bodies("Album") :
           MetadataResponse(body) /\ UNCHANGED <<idVars, urlVars, pagVars>>
    \/ \E kind \in FailureKinds :
           MetadataFail(kind) /\ UNCHANGED <<idVars, urlVars, pagVars>>
    \/ \E op \in Accessors : Access(op) /\ UNCHANGED <<idVars, urlVars, pagVars>>
    \/ EntReturn /\ UNCHANGED <<idVars, urlVars, pagVars>>

SpecEnt == InitEnt /\ [][NextEnt]_vars

----------------------------------------------------------------------------
(* Specification of one caller using every method, one call at a time      *)

\* A call of a method is in progress.
Busy == ent.pc # "idle" \/ fu.pc # "idle" \/ gens[1].pc = "fetching"

InitFrame ==
    /\ InitId
    /\ InitUrlDefault
    /\ fetches = EmptyBag
    /\ coll \in {c \in Colls({"honest"}) : c.n = 1}
    /\ gens = [g \in Gens |-> NoGen]
    /\ frames = [g \in Gens |-> [offset |-> 0, total_items |-> 0]]
    /\ ent \in {EntIdle(o, 0, 0) : o \in {e \in Entities : e.cls = "Track"}}

NextFrame ==
    \/ ~Busy /\ ReloadCall /\ UNCHANGED <<idVars, urlVars, pagVars>>
    \/ \E body \in Bodies(ent.obj.cls) :
           ReloadOk(body) /\ UNCHANGED <<idVars, urlVars, pagVars>>
    \/ \E kind \in FailureKinds :
           ReloadFail(kind) /\ UNCHANGED <<idVars, urlVars, pagVars>>
    \/ ~Busy /\ GetMetadataCall /\ UNCHANGED <<idVars, urlVars, pagVars>>
    \/ \E body \in Bodies("Album") :
           MetadataResponse(body) /\ UNCHANGED <<idVars, urlVars, pagVars>>
    \/ \E kind \in FailureKinds :
           MetadataFail(kind) /\ UNCHANGED <<idVars, urlVars, pagVars>>
    \/ \E op \in Accessors :
           ~Busy /\ Access(op) /\ UNCHANGED <<idVars, urlVars, pagVars>>
    \/ EntReturn /\ UNCHANGED <<idVars, urlVars, pagVars>>
    \/ \E r \in {"None", "Master"} :
           ~Busy /\ CallGetFileUrl(r, "None") /\ UNCHANGED <<idVars, pagVars, entVars>>
    \/ \E w \in WireQualities :
           PlaybackResponse(w, <<"u1">>) /\ UNCHANGED <<idVars, pagVars, entVars>>
    \/ FuReturn /\ UNCHANGED <<idVars, pagVars, entVars>>
    \/ ~Busy /\ StartSolo
    \/ ~Busy /\ AdvanceSolo
    \/ RespondSolo

SpecFrame == InitFrame /\ [][NextFrame]_vars

----------------------------------------------------------------------------
(* Specification of the identity cache under concurrent callers            *)

Init ==
    /\ InitId
    /\ fetches = EmptyBag
    /\ InitUrlDefault
    /\ InitPagDefault
    /\ InitEntDefault

\* Callers are interchangeable: they are numbered in the order of their calls.
NextCaller(t) == \A u \in Tasks : u < t => tasks[u].pc # "idle"

Next ==
    \/ \E t \in Tasks, cls \in Classes \ {"NoRoute"}, s \in Sessions, id \in Ids :
           NextCaller(t) /\ CallFromId(t, cls, s, id) /\ UNCHANGED <<urlVars, pagVars, entVars>>
    \/ \E t \in Tasks, cls \in Classes, s \in Sessions : \E u \in UrlsFor(cls) :
           NextCaller(t) /\ CallFromUrl(t, cls, s, u) /\ UNCHANGED <<urlVars, pagVars, entVars>>
    \/ \E t \in Tasks : Await(t) /\ UNCHANGED <<urlVars, pagVars, entVars>>
    \/ \E a \in 1..Len(aws) : FetchOk(a) /\ UNCHANGED <<urlVars, pagVars, entVars>>
    \/ \E a \in 1..Len(aws) : FetchFail(a) /\ UNCHANGED <<urlVars, pagVars, entVars>>
    \/ \E t \in Tasks : Cancel(t) /\ UNCHANGED <<urlVars, pagVars, entVars>>

Spec == Init /\ [][Next]_vars

----------------------------------------------------------------------------
(* Specification of the identity cache with the decorator of the           *)
(* specification: the awaitable keeps the outcome of the one operation     *)

NextFuture ==
    \/ \E t \in Tasks, cls \in Classes \ {"NoRoute"}, s \in Sessions, id \in Ids :
           NextCaller(t) /\ CallFromId(t, cls, s, id) /\ UNCHANGED <<urlVars, pagVars, entVars>>
    \/ \E t \in Tasks, cls \in Classes, s \in Sessions : \E u \in UrlsFor(cls) :
           NextCaller(t) /\ CallFromUrl(t, cls, s, u) /\ UNCHANGED <<urlVars, pagVars, entVars>>
    \/ \E t \in Tasks : AwaitAs("future", t) /\ UNCHANGED <<urlVars, pagVars, entVars>>
    \/ \E a \in 1..Len(aws) : FetchOk(a) /\ UNCHANGED <<urlVars, pagVars, entVars>>
    \/ \E a \in 1..Len(aws) :
           FetchFailAs("future", a) /\ UNCHANGED <<urlVars, pagVars, entVars>>
    \/ \E t \in Tasks : CancelAs("future", t) /\ UNCHANGED <<urlVars, pagVars, entVars>>

SpecFuture == Init /\ [][NextFuture]_vars


----------------------------------------------------------------------------
(* Specification of the identity cache under two sessions                  *)

\* Two session objects.
IsoSessions == {"s1", "s2"}

NextIso ==
    \/ \E t \in Tasks, cls \in ConcreteKinds, s \in IsoSessions, id \in Ids :
           NextCaller(t) /\ CallFromId(t, cls, s, id) /\ UNCHANGED <<urlVars, pagVars, entVars>>
    \/ \E t \in Tasks : Await(t) /\ UNCHANGED <<urlVars, pagVars, entVars>>
    \/ \E a \in 1..Len(aws) : FetchOk(a) /\ UNCHANGED <<urlVars, pagVars, entVars>>

SpecIso == Init /\ [][NextIso]_vars

----------------------------------------------------------------------------
(* Specification of the identity cache under one caller and many keys      *)

\* Enough identifiers to fill the cache and push an entry out of it.
LruIds == 1..(LruMaxsize + 2)

\* The pair that is requested again and again: the first one requested.
HotId == CHOOSE i \in LruIds : \A j \in LruIds : i <= j

\* The caller asks for the hot pair, or for a pair never asked for before:
\* new pairs are interchangeable, and are numbered in the order of their use
\* (every identifier asked for so far is at most the number of awaitables).
LruCallable(id) == id = HotId \/ id = Len(aws) + 1

NextLru ==
    \/ \E id \in {i \in {HotId, Len(aws) + 1} : i \in LruIds} :
           LruCallable(id) /\ CallFromId(1, "Track", "s1", id) /\ UNCHANGED <<urlVars, pagVars, entVars>>
    \/ Await(1) /\ UNCHANGED <<urlVars, pagVars, entVars>>
    \/ \E a \in 1..Len(aws) : FetchOk(a) /\ UNCHANGED <<urlVars, pagVars, entVars>>
    \/ Return(1) /\ UNCHANGED <<urlVars, pagVars, entVars>>

SpecLru == Init /\ [][NextLru]_vars

----------------------------------------------------------------------------
(* Specification of the identity cache when the GET of a pair may fail     *)

\* The GET of awaitable a is the one for the hot pair.
ForHotPair(a) == aws[a].key[3] = HotId

\* The pair the first caller asks for next: one never asked for before.
FreshId == Len(aws) + 1

\* The first caller asks for one pair after the other; the second caller
\* asks for the hot pair, once, at any time: before the first caller, while
\* the GET of the pair is outstanding, after it has ended, or after the entry
\* has left the cache.  The session may fail the GET of the hot pair; the
\* other pairs are there to fill the cache.
NextLruFail ==
    \/ /\ FreshId \in LruIds
       /\ CallFromId(1, "Track", "s1", FreshId)
       /\ UNCHANGED <<urlVars, pagVars, entVars>>
    \/ CallFromId(2, "Track", "s1", HotId) /\ UNCHANGED <<urlVars, pagVars, entVars>>
    \/ \E t \in Tasks : Await(t) /\ UNCHANGED <<urlVars, pagVars, entVars>>
    \/ \E a \in 1..Len(aws) : FetchOk(a) /\ UNCHANGED <<urlVars, pagVars, entVars>>
    \/ \E a \in 1..Len(aws) :
           ForHotPair(a) /\ FetchFail(a) /\ UNCHANGED <<urlVars, pagVars, entVars>>
    \/ Return(1) /\ UNCHANGED <<urlVars, pagVars, entVars>>

SpecLruFail == Init /\ [][NextLruFail]_vars


----------------------------------------------------------------------------
(* Properties of the identity cache                                        *)

\* The caller has begun to await the awaitable of a from_id resolution.
Awaited(t) ==
    tasks[t].aw # 0 /\ tasks[t].pc \in {"waiting", "got", "raised", "cancelled"}

\* Two callers asked for the same (kind, session, id).
SamePair(t, u) ==
    /\ tasks[t].cls = tasks[u].cls
    /\ tasks[t].sess = tasks[u].sess
    /\ tasks[t].id = tasks[u].id

\* The number of reload GETs issued for the pair a caller asked for.
ReloadsFor(t) ==
    CopiesIn([ep |-> "reload", cls |-> tasks[t].cls, sess |-> tasks[t].sess,
              id |-> tasks[t].id], fetches)

\* The entity has been filled from a response of the server.
Populated(o) == contains(o, "title")

\* C1: two callers of from_id for the same concrete (kind, id), the second of
\* which begins before the reload of the first has completed (or at any later
\* time), share one awaitable: exactly one reload GET is issued for the pair,
\* and the callers that receive an entity receive the same instance, of the
\* kind and id asked for.
C1_SingleFlight ==
    \A t, u \in Tasks :
        ( /\ t # u
          /\ tasks[t].op = "from_id" /\ tasks[u].op = "from_id"
          /\ tasks[t].cls \in ConcreteKinds
          /\ SamePair(t, u)
          /\ Awaited(t) /\ Awaited(u) )
        => /\ ReloadsFor(t) = 1
           /\ tasks[t].aw = tasks[u].aw
           /\ (tasks[t].pc = "got" /\ tasks[u].pc = "got")
                => /\ tasks[t].res = tasks[u].res
                   /\ objs[tasks[t].res].cls = tasks[t].cls
                   /\ get_id(objs[tasks[t].res]) = tasks[t].id

\* Two callers of one pair, the second joining while the GET was outstanding,
\* have both received the entity.
C1_Witness ==
    \E t, u \in Tasks :
        /\ t # u
        /\ tasks[t].op = "from_id" /\ tasks[u].op = "from_id"
        /\ tasks[t].cls = "Playlist" /\ SamePair(t, u)
        /\ tasks[t].joined = "new" /\ tasks[u].joined = "running"
        /\ tasks[t].pc = "got" /\ tasks[u].pc = "got"
        /\ tasks[t].res = tasks[u].res
        /\ ReloadsFor(t) = 1

\* C7: when a caller waiting for a pending from_id resolution is cancelled,
\* the shared operation is not: its GET is still outstanding or has completed
\* on its own, no other waiter sees the cancellation, and once the GET has
\* succeeded every other caller of that resolution holds the populated entity.
C7_CancelLeavesFetch ==
    \A t \in Tasks :
        tasks[t].pc = "cancelled" =>
            LET a == tasks[t].aw IN
            /\ aws[a].st \in {"running", "done", "failed"}
            /\ aws[a].st = "failed" => aws[a].err = "FetchFailure"
            /\ \A u \in Tasks \ {t} :
                   (Awaited(u) /\ tasks[u].aw = a /\ tasks[u].pc # "cancelled") =>
                       /\ tasks[u].pc = "raised" => tasks[u].err = "FetchFailure"
                       /\ aws[a].st = "done" =>
                              /\ tasks[u].pc = "got"
                              /\ tasks[u].res = aws[a].obj
                              /\ Populated(objs[tasks[u].res])

\* One waiter was cancelled, and another waiter of the same resolution has
\* received the populated entity.
C7_Witness ==
    \E t, u \in Tasks :
        /\ t # u
        /\ tasks[t].pc = "cancelled"
        /\ tasks[u].aw = tasks[t].aw
        /\ tasks[u].joined = "running"
        /\ tasks[u].pc = "got"
        /\ Populated(objs[tasks[u].res])

\* C8: from_url for a URL embedding an id and from_id for that id, on the same
\* concrete kind, resolve through one cache entry: the two callers hold the
\* same awaitable, one reload GET is issued, both receive the same instance,
\* and for Playlist that instance is keyed by its uuid field.
C8_UrlSharesEntry ==
    \A t, u \in Tasks :
        ( /\ tasks[t].op = "from_url" /\ tasks[u].op = "from_id"
          /\ tasks[t].cls \in ConcreteKinds
          /\ SamePair(t, u)
          /\ Awaited(t) /\ Awaited(u) )
        => /\ tasks[t].aw = tasks[u].aw
           /\ ReloadsFor(t) = 1
           /\ (tasks[t].pc = "got" /\ tasks[u].pc = "got")
                => tasks[t].res = tasks[u].res
           /\ tasks[t].cls = "Playlist"
                => objs[aws[tasks[t].aw].obj].id_field_name = "uuid"

\* A Playlist resolved by URL and by id: both callers hold the one instance.
C8_Witness ==
    \E t, u \in Tasks :
        /\ tasks[t].op = "from_url" /\ tasks[u].op = "from_id"
        /\ tasks[t].cls = "Playlist" /\ SamePair(t, u)
        /\ tasks[t].pc = "got" /\ tasks[u].pc = "got"
        /\ tasks[t].res = tasks[u].res
        /\ ReloadsFor(t) = 1

\* C9: awaiting from_id or from_url of the base type TidalObject, or from_url
\* of a kind without a route name, raises NotImplementedError, and that step
\* issues no GET and constructs no entity.
C9_AbstractRaises ==
    [][\A t \in Tasks :
          ( /\ tasks[t].pc = "called"
            /\ tasks'[t].pc # "called"
            /\ \/ tasks[t].cls = "TidalObject"
               \/ tasks[t].op = "from_url" /\ tasks[t].cls = "NoRoute" )
          => /\ tasks'[t].pc = "raised"
             /\ tasks'[t].err = "NotImplementedError"
             /\ objs' = objs
             /\ fetches' = fetches]_vars

\* from_id of the base type and from_url of a kind without a route name have
\* both raised, and nothing was fetched or constructed.
C9_Witness ==
    \E t, u \in Tasks :
        /\ tasks[t].op = "from_id" /\ tasks[t].cls = "TidalObject"
        /\ tasks[t].pc = "raised" /\ tasks[t].err = "NotImplementedError"
        /\ tasks[u].op = "from_url" /\ tasks[u].cls = "NoRoute"
        /\ tasks[u].pc = "raised" /\ tasks[u].err = "NotImplementedError"
        /\ objs = <<>> /\ fetches = EmptyBag

\* C2 as stated: whatever was requested in between, no pair is ever fetched
\* more than once.
C2_AtMostOneFetchEver ==
    \A r \in BagToSet(fetches) : CopiesIn(r, fetches) <= 1

\* C2, amended: as long as at most LruMaxsize cache entries have been created
\* in the process (at most that many distinct keys were requested), no pair is
\* fetched more than once, one entity exists per pair, and a caller of a pair
\* requested before receives the stored entity.
C2_AtMostOneFetchWithinMaxsize ==
    Len(aws) <= LruMaxsize =>
        /\ \A r \in BagToSet(fetches) : CopiesIn(r, fetches) <= 1
        /\ Len(objs) = Cardinality(BagToSet(fetches))
        /\ \A t \in Tasks :
               tasks[t].pc = "got" => tasks[t].res = aws[tasks[t].aw].obj

\* The hot pair is requested again after LruMaxsize - 1 other pairs, and is
\* served from the cache.
C2_Witness ==
    /\ Len(aws) = LruMaxsize
    /\ tasks[1].pc = "got" /\ tasks[1].id = HotId /\ tasks[1].joined = "done"
    /\ ReloadsFor(1) = 1


----------------------------------------------------------------------------
(* Properties of get_file_url                                              *)

\* The order of the tiers: Normal < High < HiFi < Master, by wire string.
TierRank(wire) ==
    CASE wire = "LOW" -> 1
      [] wire = "HIGH" -> 2
      [] wire = "LOSSLESS" -> 3
      [] wire = "HI_RES" -> 4

\* A call of get_file_url that ended after a response naming one of the tiers.
FuEnded ==
    /\ fu.pc \in {"returned", "raised"}
    /\ fu.delivered \in {"LOW", "HIGH", "LOSSLESS", "HI_RES"}

\* C3: for every required tier r and delivered tier d, get_file_url raises
\* InsufficientAudioQuality exactly when d < r; when d >= r, whatever tier was
\* requested, it returns the first url of the decoded manifest.
C3_FailsIffBelowRequired ==
    FuEnded =>
        /\ (fu.err = "InsufficientAudioQuality")
               <=> (TierRank(fu.delivered) < TierRank(value(fu.required)))
        /\ (TierRank(fu.delivered) >= TierRank(value(fu.required)) /\ fu.urls # <<>>)
               => (fu.pc = "returned" /\ fu.res = fu.urls[1])

\* The track has the id alone, the server delivered LOW where High was
\* required, and what left the call is the KeyError of Track.__repr__.
C3_Witness ==
    /\ FuEnded
    /\ fu.track = Stub("Track")
    /\ fu.required = "High" /\ fu.delivered = "LOW"
    /\ fu.pc = "raised" /\ fu.err = "KeyError"

\* C6: every call of get_file_url issues exactly one playback-info GET,
\* whether it returns or raises: the GETs issued are as many as the calls.
C6_OneRequestPerCall ==
    PlaybackRequests = fu.calls

\* Two calls were made, the second ended with InsufficientAudioQuality, and
\* two GETs were issued.
C6_Witness ==
    /\ fu.calls = 2
    /\ fu.pc = "raised" /\ fu.err = "InsufficientAudioQuality"
    /\ PlaybackRequests = 2


----------------------------------------------------------------------------
(* Properties of the traversals                                            *)

IsPrefix(s, t) == Len(s) <= Len(t) /\ \A i \in 1..Len(s) : s[i] = t[i]

\* The ids of the n tracks of the collection, in the server's order.
TrackIds(n) == [i \in 1..n |-> i]

\* The offsets a traversal of n items in pages of l requests when it runs
\* alone against a server that echoes the request: 0, l, 2l, ... below n, and
\* offset 0 also when there is no item.
ExpectedOffsets(n, l) ==
    LET pages == IF n = 0 THEN 1 ELSE (n + l - 1) \div l
    IN [k \in 1..pages |-> (k - 1) * l]

\* C4: against a server that echoes offset and limit and reports N items, a
\* traversal consumed to its end has yielded exactly the N tracks, each once,
\* in the server's order, has requested the pages at 0, P, 2P, ... and no
\* other, and at no time has it yielded more than N tracks.
C4_YieldsAllInOrder ==
    coll.mode = "honest" =>
        \A g \in Gens :
            /\ Len(gens[g].out) <= coll.n
            /\ gens[g].pc = "done" =>
                   /\ gens[g].out = TrackIds(coll.n)
                   /\ gens[g].reqs = ExpectedOffsets(coll.n, gens[g].limit)

\* Three tracks in pages of two: the traversal ended after the pages at 0 and
\* 2, with the three tracks.
C4_Witness ==
    /\ coll.n = 3 /\ coll.mode = "honest"
    /\ gens[1].pc = "done" /\ gens[1].limit = 2
    /\ gens[1].out = <<1, 2, 3>> /\ gens[1].reqs = <<0, 2>>
    /\ gens[2].pc = "none"

\* C5: a traversal that is consumed to its end, against a server whose total
\* stays bounded and whose echoed offset + limit grows from page to page,
\* ends.
C5_Terminates ==
    (gens[1].pc = "created" /\ coll.mode \in {"honest", "increasing"})
        ~> (gens[1].pc = "done")

\* A traversal against a server that moves its window by one item a page has
\* ended, after more GETs than the collection has items.
C5_Witness ==
    /\ coll.mode = "increasing"
    /\ gens[1].pc = "done"
    /\ Len(gens[1].reqs) > MaxItems

\* C10: two traversals of one instance, interleaved in any order, each
\* request the offsets and yield the tracks they would alone: the first GET of
\* each is at offset 0, its GETs are the first of 0, P, 2P, ..., and its
\* tracks are the first of the collection, in order.
C10_TraversalsIndependent ==
    coll.mode = "honest" =>
        \A g \in Gens :
            /\ gens[g].reqs # <<>> => gens[g].reqs[1] = 0
            /\ gens[g].pc # "none" =>
                   IsPrefix(gens[g].reqs, ExpectedOffsets(coll.n, gens[g].limit))
            /\ IsPrefix(gens[g].out, TrackIds(coll.n))
            /\ gens[g].pc = "done" => gens[g].out = TrackIds(coll.n)

\* One traversal has ended with all three tracks, its offset at 4, while the
\* other is in the middle of its own, its offset at 2.
C10_Witness ==
    /\ coll.n = 3
    /\ gens[1].pc = "done" /\ gens[1].limit = 2 /\ gens[1].out = <<1, 2, 3>>
    /\ gens[2].pc = "yielded" /\ gens[2].limit = 1
    /\ gens[2].reqs = <<0, 1>> /\ gens[2].out = <<1, 2>>
    /\ frames[1] = [offset |-> 4, total_items |-> 3]
    /\ frames[2] = [offset |-> 2, total_items |-> 3]

----------------------------------------------------------------------------
(* Properties of reload_info and get_metadata                              *)

\* The number of GETs issued for the reload of the entity of a kind.
ReloadGets(cls) ==
    CopiesIn([ep |-> "reload", cls |-> cls, sess |-> "s1", id |-> EntId(cls)],
             fetches)

\* C11: the reload GETs issued for the entity are as many as the calls of
\* its reload_info (one a call, none added on a failure); after a call that
\* returned, the mapping is exactly the decoded body, with no key of the
\* mapping before it left over; after a call that failed, the failure of the
\* session is what the caller got.
C11_ReloadOneGetReplace ==
    /\ ReloadGets(ent.obj.cls) =
           ent.calls + (IF ent.obj.cls = "Album" THEN ent.metas ELSE 0)
    /\ (ent.op = "reload_info" /\ ent.pc = "returned") =>
           /\ ent.obj.dict = ent.body
           /\ DOMAIN ent.obj.dict = DOMAIN ent.body
    /\ (ent.op = "reload_info" /\ ent.pc = "raised") => ent.err \in FailureKinds

\* The second reload_info of a track returned a body without the copyright
\* and isrc the mapping had: the mapping is that body, and two GETs were sent.
C11_Witness ==
    /\ ent.op = "reload_info" /\ ent.pc = "returned"
    /\ ent.obj.cls = "Track" /\ ent.calls = 2
    /\ "copyright" \in DOMAIN ent.before /\ "isrc" \in DOMAIN ent.before
    /\ ent.body = TrackBody("absent", "absent")
    /\ ent.obj.dict = ent.body
    /\ ReloadGets("Track") = 2

\* C19: after a reload_info that failed, on the GET or on the decoding of its
\* body, the mapping is the one the entity had before the call, so get_id and
\* every field read return what they returned before.
C19_FailedReloadKeepsMapping ==
    (ent.op = "reload_info" /\ ent.pc = "raised") =>
        /\ ent.obj.dict = ent.before
        /\ \A op \in Accessors :
               (op = "album" => ent.obj.cls = "Track") =>
                   /\ AccessDefined(ent.obj, op)
                          = AccessDefined([ent.obj EXCEPT !.dict = ent.before], op)
                   /\ AccessDefined(ent.obj, op) =>
                          AccessValue(ent.obj, op)
                            = AccessValue([ent.obj EXCEPT !.dict = ent.before], op)

\* The reload of a loaded playlist failed on the decoding of the body: the
\* playlist still has its description, and its uuid.
C19_Witness ==
    /\ ent.op = "reload_info" /\ ent.pc = "raised" /\ ent.err = "JSONDecodeError"
    /\ ent.obj.cls = "Playlist"
    /\ ent.before = PlaylistBody("D")
    /\ ent.obj.dict = PlaylistBody("D")
    /\ get_id(ent.obj) = EntId("Playlist")

\* The field is in the mapping, and is not null.
NonNull(d, k) == k \in DOMAIN d /\ d[k] # "None"

\* The field is in the mapping, and is neither null nor the empty string.
NonEmpty(d, k) == NonNull(d, k) /\ d[k] # ""

\* get_metadata has returned the tags for the track and the album's body.
MetadataReturned == ent.op = "get_metadata" /\ ent.pc = "returned"

\* The tag k is there exactly when it is wanted, and is the value v.
TagIs(k, wanted, v) ==
    IF wanted THEN k \in DOMAIN ent.tags /\ ent.tags[k] = v
              ELSE k \notin DOMAIN ent.tags

\* C16 as stated: the copyright tag is the track's copyright when that is
\* present and not null, else the album's when that is present and not null,
\* else left out; isrc and upc are there exactly when present and not null on
\* the track and on the album.
C16_TagsWhenNonNull ==
    MetadataReturned =>
        /\ TagIs("copyright",
                 NonNull(ent.before, "copyright") \/ NonNull(ent.body, "copyright"),
                 IF NonNull(ent.before, "copyright") THEN ent.before["copyright"]
                                                     ELSE ent.body["copyright"])
        /\ TagIs("isrc", NonNull(ent.before, "isrc"), ent.before["isrc"])
        /\ TagIs("upc", NonNull(ent.body, "upc"), ent.body["upc"])

\* C16, amended: the same with "present, not null and not empty" in the place
\* of "present and not null": an empty track copyright falls back to the
\* album's, and an empty copyright, isrc or upc is left out; no call fails
\* for a missing optional field.
C16_TagsWhenNonEmpty ==
    /\ MetadataReturned =>
           /\ TagIs("copyright",
                    NonEmpty(ent.before, "copyright") \/ NonEmpty(ent.body, "copyright"),
                    IF NonEmpty(ent.before, "copyright") THEN ent.before["copyright"]
                                                         ELSE ent.body["copyright"])
           /\ TagIs("isrc", NonEmpty(ent.before, "isrc"), ent.before["isrc"])
           /\ TagIs("upc", NonEmpty(ent.body, "upc"), ent.body["upc"])
    /\ (ent.op = "get_metadata" /\ ent.pc = "raised" /\ ent.err = "KeyError") =>
           "album" \notin DOMAIN ent.before

\* The track's copyright is null and the album's is not: the tags carry the
\* album's copyright and the track's isrc, and no upc, the album having none.
C16_Witness ==
    /\ MetadataReturned
    /\ ent.before = TrackBody("None", "I")
    /\ ent.body = AlbumBody("cA", "absent")
    /\ ent.tags["copyright"] = "cA"
    /\ ent.tags["isrc"] = "I"
    /\ "upc" \notin DOMAIN ent.tags

\* C14: no step changes the mapping of the entity a method is called on,
\* but the step in which that entity's own reload_info takes the decoded
\* body: get_file_url leaves its track, tracks() its collection, the
\* accessors and get_metadata their entity as they were, and after
\* get_metadata the track still embeds the album sub-document it embedded
\* before, whatever the reloaded album holds.
C14_OnlyReloadChangesMapping ==
    [][/\ fu'.track = fu.track
       /\ coll'.obj = coll.obj
       /\ ent'.obj # ent.obj =>
              /\ ent.op = "reload_info" /\ ent.pc = "reload_await"
              /\ ent'.pc = "returned"
              /\ ent'.obj = [ent.obj EXCEPT !.dict = ent'.body]
       /\ ent.pc = "meta_await" =>
              /\ ent'.obj.dict = ent.before
              /\ ent'.obj.dict["album"] = ent.album.dict]_vars

\* After a get_file_url and a traversal, get_metadata has returned: the album
\* it reloaded has its full fields, and the track has the mapping it had, with
\* the partial album sub-document.
C14_Witness ==
    /\ MetadataReturned
    /\ fu.calls = 1
    /\ gens[1].pc = "done" /\ gens[1].out = <<1>>
    /\ ent.album.dict = AlbumBody("cA", "U")
    /\ ent.obj.dict = TrackBody("cT", "I")
    /\ ent.obj.dict["album"] = AlbumDoc
    /\ ent.tags["upc"] = "U"

----------------------------------------------------------------------------
(* Properties of the traversals, against any server                        *)

\* The end of the window a response echoes.
WindowEnd(r) == r.offset + r.limit

\* C12: the first listing GET is at offset 0, and every later one (the
\* latest, at every time) is at the offset + limit the response before it
\* echoed, which was below the total that response reported; the traversal
\* has ended only after a response whose offset + limit was not below its
\* total.
C12_NextOffsetFromResponse ==
    \A g \in Gens :
        LET q == gens[g].reqs
            r == gens[g].resps
            m == Len(gens[g].resps)
            p == gens[g].pages
        IN
        /\ q # <<>> => q[1] = 0
        /\ p <= Len(q) /\ Len(q) <= p + 1
        /\ (Len(q) = p + 1 /\ p >= 1) =>
               /\ q[Len(q)] = WindowEnd(r[m])
               /\ WindowEnd(r[m]) < r[m].total
        /\ (Len(q) = p /\ p >= 2) =>
               /\ q[Len(q)] = WindowEnd(r[m - 1])
               /\ WindowEnd(r[m - 1]) < r[m - 1].total
        /\ gens[g].pc = "done" =>
               /\ Len(q) = p /\ p >= 1
               /\ WindowEnd(r[m]) >= r[m].total

\* Pages of two were asked for; the server echoed a limit of 1, and for the
\* GET at 1 the window that starts at 0: the third GET is at 1 again, and is
\* neither at 1 + 2 nor at 1 + 1.
C12_Witness ==
    /\ gens[1].limit = 2 /\ coll.n = 3
    /\ gens[1].reqs = <<0, 1, 1>>
    /\ gens[1].pages = 2
    /\ gens[1].resps[1].offset = 0 /\ gens[1].resps[1].limit = 1
    /\ gens[1].resps[2].offset = 0 /\ gens[1].resps[2].limit = 1
    /\ gens[1].resps[2].total = 3

\* C13 as stated: a page that echoes an offset + limit not greater than that
\* of the page before keeps the traversal from ending.
C13_NonIncreasingNeverEnds ==
    LET r == gens[1].resps IN
    (Len(r) = 2 /\ WindowEnd(r[2]) <= WindowEnd(r[1]))
        => gens[1].pc # "done"

\* C13, amended: after a page that echoes an offset + limit not greater than
\* that of the page before, and reports a total not smaller than that page
\* did, the traversal has not ended (another listing GET follows it): no
\* guard of the traversal stops a server that keeps answering so.
C13_StuckWindowNeverEnds ==
    LET r == gens[1].resps
        m == Len(r)
    IN
    (m >= 2 /\ WindowEnd(r[m]) <= WindowEnd(r[m - 1]) /\ r[m].total >= r[m - 1].total)
        => /\ gens[1].pc # "done"
           /\ WindowEnd(r[m]) < r[m].total
           /\ (gens[1].pc = "fetching" /\ Len(gens[1].reqs) = m + 1)
                  => gens[1].reqs[m + 1] = WindowEnd(r[m])

\* Every page after the first echoed the window of the first, and the
\* traversal has sent as many GETs as it is followed for, the last of them at
\* the offset of the second.
C13_Witness ==
    LET r == gens[1].resps IN
    /\ coll.n = 3
    /\ gens[1].pc = "fetching"
    /\ Len(gens[1].reqs) = MaxAnyPages
    /\ gens[1].pages = MaxAnyPages - 1
    /\ WindowEnd(r[2]) <= WindowEnd(r[1]) /\ r[2].total = r[1].total
    /\ \A k \in 2..Len(gens[1].reqs) : gens[1].reqs[k] = gens[1].reqs[2]

----------------------------------------------------------------------------
(* Properties of the traversals: what they fetch, and when                 *)

\* C15: the GETs a traversal issues are listing GETs and nothing else, one
\* for every page (as many as the traversals requested offsets), at least one
\* once a traversal has run, also when the collection is empty; no entity was
\* resolved through from_id and the identity cache has no entry; the tracks
\* yielded carry the ids of the items.
C15_OnlyListingRequests ==
    /\ \A r \in BagToSet(fetches) : r.ep = "tracks"
    /\ BagCardinality(fetches) = Len(gens[1].reqs) + Len(gens[2].reqs)
    /\ \A g \in Gens :
           /\ gens[g].pc \in {"fetching", "yielded", "done"} => Len(gens[g].reqs) >= 1
           /\ gens[g].pc = "done" => gens[g].pages = Len(gens[g].reqs)
           /\ Len(gens[g].out) <= gens[g].items
           /\ IsPrefix(gens[g].out, TrackIds(coll.n))
    /\ cache = <<>> /\ aws = <<>> /\ objs = <<>>

\* The collection has two tracks: the traversal in pages of one has ended
\* after two listing GETs and two tracks, and nothing else was fetched.
C15_Witness ==
    /\ coll.n = 2
    /\ gens[1].pc = "done" /\ gens[1].limit = 1
    /\ gens[1].out = <<1, 2>> /\ gens[1].reqs = <<0, 1>>
    /\ gens[2].pc = "none"
    /\ BagCardinality(fetches) = 2
    /\ cache = <<>>

\* C20: a traversal that was not asked for an item has sent no GET; a GET is
\* sent only in a step in which the consumer asks for the next item, or while
\* it waits for one and the page that arrived is empty, and then every item
\* of every page received was handed over; no other step sends a GET.
C20_LazyFetch ==
    [][/\ \A g \in Gens :
              /\ gens'[g].pc \in {"none", "created"} => gens'[g].reqs = <<>>
              /\ Len(gens'[g].reqs) > Len(gens[g].reqs) =>
                     /\ \/ gens[g].pc \in {"created", "yielded"}
                        \/ /\ gens[g].pc = "fetching"
                           /\ gens'[g].resps[Len(gens'[g].resps)].n = 0
                     /\ gens[g].page = <<>>
                     /\ Len(gens'[g].out) = gens'[g].items
       /\ fetches' # fetches =>
              \E g \in Gens : Len(gens'[g].reqs) = Len(gens[g].reqs) + 1]_vars

\* One traversal was created and never asked for an item; the other was left
\* after the first track of a page of two: one GET was sent in all.
C20_Witness ==
    /\ coll.n = 3
    /\ gens[1].pc = "created" /\ gens[1].reqs = <<>>
    /\ gens[2].pc = "yielded" /\ gens[2].limit = 2
    /\ gens[2].out = <<1>> /\ gens[2].page # <<>>
    /\ gens[2].reqs = <<0>>
    /\ BagCardinality(fetches) = 1

----------------------------------------------------------------------------
(* Properties of the identity cache: failures, kinds and sessions          *)

\* The reload GETs issued so far for a cache key.
ReloadsOfKey(key) ==
    CopiesIn([ep |-> "reload", cls |-> key[1], sess |-> key[2], id |-> key[3]],
             fetches)

\* The resolution a failed: every caller that awaited it has failed, the one
\* that started it with the failure of the session; one GET was issued for
\* its pair; the failed resolution is what the cache holds for the pair; and
\* its entity was never populated.
FailureKept(a) ==
    /\ \A t \in Tasks :
           (Awaited(t) /\ tasks[t].aw = a) =>
               /\ tasks[t].pc = "raised"
               /\ tasks[t].err # ""
               /\ tasks[t].joined = "new" => tasks[t].err = "FetchFailure"
    /\ ReloadsOfKey(aws[a].key) = 1
    /\ LruFind(cache, aws[a].key) > 0
    /\ cache[LruFind(cache, aws[a].key)].aw = a
    /\ ~Populated(objs[aws[a].obj])

\* The GET of resolution a has failed.
FetchFailed(a) == aws[a].st = "failed" /\ aws[a].err = "FetchFailure"

\* C17 as stated: when the GET of a from_id resolution has failed, then
\* whatever is requested afterwards, the caller that started it, those that
\* waited with it and those that come later observe a failure, no second GET
\* is issued for the pair and the failed resolution stays stored; and nobody
\* receives an unpopulated entity.
C17_FailureReachesEveryCaller ==
    /\ \A a \in 1..Len(aws) : FetchFailed(a) => FailureKept(a)
    /\ \A t \in Tasks : tasks[t].pc = "got" => Populated(objs[tasks[t].res])

\* C17, amended: the same, as long as at most LruMaxsize cache entries have
\* been created in the process, so that the failed resolution has not been
\* pushed out of the cache; nobody ever receives an unpopulated entity.
C17_FailureKeptWithinMaxsize ==
    /\ Len(aws) <= LruMaxsize =>
           \A a \in 1..Len(aws) : FetchFailed(a) => FailureKept(a)
    /\ \A t \in Tasks : tasks[t].pc = "got" => Populated(objs[tasks[t].res])

\* The GET for the hot pair failed under the first caller, who went on to
\* other pairs; the second caller asked for the pair afterwards and failed on
\* the stored resolution; one GET was sent for the pair.
C17_Witness ==
    \E a \in 1..Len(aws) :
        /\ FetchFailed(a)
        /\ Len(aws) > 2
        /\ tasks[2].aw = a
        /\ tasks[2].joined = "failed" /\ tasks[2].pc = "raised"
        /\ ReloadsOfKey(aws[a].key) = 1

\* C18: two callers of from_id that differ in kind or in session hold
\* different awaitables, one GET was sent for the key of each, and the
\* entities they receive are two instances, each of the kind and of the
\* session its caller asked for.
C18_KindAndSessionIsolated ==
    /\ \A t, u \in Tasks :
           ( /\ t # u
             /\ Awaited(t) /\ Awaited(u)
             /\ tasks[t].cls # tasks[u].cls \/ tasks[t].sess # tasks[u].sess )
           => /\ tasks[t].aw # tasks[u].aw
              /\ ReloadsFor(t) = 1 /\ ReloadsFor(u) = 1
              /\ (tasks[t].pc = "got" /\ tasks[u].pc = "got")
                     => tasks[t].res # tasks[u].res
    /\ \A t \in Tasks :
           tasks[t].pc = "got" =>
               /\ objs[tasks[t].res].cls = tasks[t].cls
               /\ objs[tasks[t].res].sess = tasks[t].sess
               /\ get_id(objs[tasks[t].res]) = tasks[t].id

\* The same track id was resolved in the two sessions: each caller holds an
\* instance of its own session, and two GETs were sent, one a session.
C18_Witness ==
    \E t, u \in Tasks :
        /\ tasks[t].cls = "Track" /\ tasks[u].cls = "Track"
        /\ tasks[t].id = tasks[u].id
        /\ tasks[t].sess = "s1" /\ tasks[u].sess = "s2"
        /\ tasks[t].pc = "got" /\ tasks[u].pc = "got"
        /\ tasks[t].res # tasks[u].res
        /\ objs[tasks[t].res].sess = "s1" /\ objs[tasks[u].res].sess = "s2"
        /\ BagCardinality(fetches) = 2

====
